---- MODULE Spec2Model ----
(***************************************************************************)
(* Account and profile service of the recruitment platform                 *)
(* (backend/recruitmentPlatform/Platform): the UserProfile model with its  *)
(* post_save receivers, and the registration, login and profile-update     *)
(* serializers.  Spec runs every request as one step; SpecConc runs the    *)
(* registration and the profile update as the separate database steps the  *)
(* code performs, so that requests interleave.                             *)
(***************************************************************************)
EXTENDS Integers, Sequences, FiniteSets, TLC

VARIABLES
    users,          \* auth_user table: id -> row
    profiles,       \* Platform_userprofile table: id -> row
    nextUserId,     \* auto-increment primary key of auth_user
    nextProfileId,  \* auto-increment primary key of Platform_userprofile
    now,            \* server clock, read by auto_now / auto_now_add
    backend,        \* the backend authenticate() runs (AUTHENTICATION_BACKENDS
                    \* is set in the project settings; ModelBackend by default)
    last,           \* Spec: the request just handled and its outcome
    req             \* SpecConc: the requests in flight

vars == <<users, profiles, nextUserId, nextProfileId, now, backend, last, req>>

---------------------------------------------------------------------------
(* Bounds of the model *)

MaxIds == 2         \* Identities ever created
MaxTime == 4        \* clock ticks, one per request that writes
MaxReq == 3         \* concurrent requests of SpecConc

---------------------------------------------------------------------------
(* Values *)

None == "None"
NoUser == 0
MinPasswordLength == 8

PasswordsDontMatch == "Passwords don't match"
EmailExists == "A user with this email already exists."
UsernameExists == "A user with that username already exists."
MayNotBeBlank == "This field may not be blank."
PasswordTooShort == "Ensure this field has at least 8 characters."
InvalidCredentials == "Invalid credentials"
AccountDisabled == "User account is disabled"
MustInclude == "Must include username and password"

Backends == {"ModelBackend", "AllowAllUsersModelBackend"}

Usernames == {"u1", "u2"}
LoginUsernames == {"", "u1", "u2"}
Emails == {<<"a", "x.io">>, <<"a", "X.io">>, <<"b", "x.io">>}
Passwords == {"short", "password1"}
LoginPasswords == {"", "short", "password1"}

RegistrationPayloads ==
    [username : Usernames, email : Emails, first_name : {"Jane"},
     last_name : {"Doe"}, password : Passwords, password_confirm : Passwords]

LoginPayloads == [username : LoginUsernames, password : LoginPasswords]

IdentityKeys == {"first_name", "last_name"}
UpdatableKeys ==
    {"first_name", "last_name", "phone_number", "date_of_birth", "location",
     "bio", "skills", "experience_years", "linkedin_url", "github_url",
     "is_recruiter", "company"}

\* the keys the update payloads explored draw from, and the value each sets
PayloadKeys == {"first_name", "last_name", "bio", "company"}
PayloadValue(k) ==
    CASE k = "first_name" -> "Joe"
      [] k = "last_name" -> "Roe"
      [] k = "bio" -> "hi"
      [] k = "company" -> "A"
      [] k = "experience_years" -> 3
      [] k = "is_recruiter" -> TRUE
      [] OTHER -> "v"

UpdatePayloads == {[k \in K |-> PayloadValue(k)] : K \in SUBSET PayloadKeys}

---------------------------------------------------------------------------
(* Dictionaries and attribute assignment *)

Restrict(d, K) == [k \in K |-> d[k]]

\* dict.pop(key) : the dictionary without the key
PopRest(d, key) == Restrict(d, DOMAIN d \ {key})

\* dict.pop(key, {}) : the value popped
PopValue(d, key) == IF key \in DOMAIN d THEN d[key] ELSE <<>>

SetAttrsReplacing(obj, data) ==
    [f \in DOMAIN obj |->
        IF f \in DOMAIN data THEN data[f]
        ELSE IF f \in {"phone_number", "location", "bio", "skills", "company"}
               THEN None ELSE obj[f]]

\* for attr, value in data.items(): setattr(obj, attr, value)
SetAttrs(obj, data) ==
    [f \in DOMAIN obj |-> IF f \in DOMAIN data THEN data[f] ELSE obj[f]]

---------------------------------------------------------------------------
(* The tables *)

UserFields ==
    {"username", "email", "first_name", "last_name", "password", "is_active"}

NewProfile(uid, t) ==
    [user |-> uid, phone_number |-> None, date_of_birth |-> None,
     location |-> None, bio |-> None, skills |-> None, experience_years |-> 0,
     linkedin_url |-> None, github_url |-> None, resume |-> None,
     profile_picture |-> None, is_recruiter |-> FALSE, company |-> None,
     created_at |-> t, updated_at |-> t]

\* the database as one value: the tables, the key counters, the clock and
\* the rows written so far by the request at hand
DB(w) ==
    [users |-> users, profiles |-> profiles, nextUserId |-> nextUserId,
     nextProfileId |-> nextProfileId, now |-> now, writes |-> w]

\* UserProfile.save(): every column of the row is written; auto_now stamps
\* updated_at
ProfileSave(db, pid, row) ==
    [db EXCEPT !.profiles = (pid :> [row EXCEPT !.updated_at = db.now]) @@ @,
               !.writes = Append(@, <<"UserProfile", pid>>)]

CreateOnlyWhenNotCreated(db, uid, created) ==
    IF ~created
      THEN ProfileSave([db EXCEPT !.nextProfileId = @ + 1], db.nextProfileId,
                       NewProfile(uid, db.now))
      ELSE db

\* post_save receiver: a profile for a newly created user
create_user_profile(db, uid, created) ==
    IF created
      THEN ProfileSave([db EXCEPT !.nextProfileId = @ + 1], db.nextProfileId,
                       NewProfile(uid, db.now))
      ELSE db

\* post_save receiver: instance.userprofile.save().  cache holds the profile
\* object the user instance has cached (the reverse one-to-one accessor);
\* otherwise the row is read from the table.  Without a profile the access
\* raises and nothing is written.
save_user_profile(db, uid, cache) ==
    LET view == cache @@ db.profiles
        mine == {p \in DOMAIN view : view[p].user = uid}
    IN  IF mine = {} THEN db
        ELSE LET p == CHOOSE q \in mine : TRUE IN ProfileSave(db, p, view[p])

\* User.save() and the two receivers of its post_save signal, in the order
\* they are connected
UserSave(db, uid, row, created, cache) ==
    LET db1 == [db EXCEPT !.users = (uid :> row) @@ @,
                          !.writes = Append(@, <<"User", uid>>)]
        db2 == create_user_profile(db1, uid, created)
    IN  save_user_profile(db2, uid, cache)

\* User.delete(): on_delete=CASCADE removes the user's profile rows
UserDelete(db, uid) ==
    [db EXCEPT !.users = Restrict(@, DOMAIN @ \ {uid}),
               !.profiles = Restrict(@, {p \in DOMAIN @ : @[p].user # uid})]

ProfilesOf(ps, uid) == {p \in DOMAIN ps : ps[p].user = uid}

---------------------------------------------------------------------------
(* Registration: UserRegistrationSerializer *)

\* the credential create_user stores: a hash of the raw password
make_password(raw) == <<"pbkdf2_sha256", raw>>
check_password(raw, encoded) == encoded = make_password(raw)

\* create_user stores the e-mail with its domain part in lower case
Lower(domain) == IF domain = "X.io" THEN "x.io" ELSE domain
normalize_email(email) == <<email[1], Lower(email[2])>>

EmailNeverChecked(us, value) == {}

\* validate_email: User.objects.filter(email=value).exists()
validate_email(us, value) ==
    IF \E u \in DOMAIN us : us[u].email = value THEN {EmailExists} ELSE {}

\* the field validators the serializer declares or takes from the User model:
\* username non-blank and unique, password min_length
UsernameErrors(us, value) ==
    IF value = "" THEN {MayNotBeBlank}
    ELSE IF \E u \in DOMAIN us : us[u].username = value THEN {UsernameExists}
    ELSE {}

PasswordErrors(value) ==
    IF Len(value) < MinPasswordLength THEN {PasswordTooShort} ELSE {}

RegistrationFieldErrors(us, data) ==
    UsernameErrors(us, data.username) \cup validate_email(us, data.email)
        \cup PasswordErrors(data.password)

PasswordsNeverCompared(attrs) == {}

\* UserRegistrationSerializer.validate
RegistrationValidate(attrs) ==
    IF attrs.password # attrs.password_confirm THEN {PasswordsDontMatch} ELSE {}

\* is_valid(): the field errors of every field; validate() runs only when
\* there are none
RegistrationErrors(us, data) ==
    IF RegistrationFieldErrors(us, data) # {}
      THEN RegistrationFieldErrors(us, data)
      ELSE RegistrationValidate(data)

\* User.objects.create_user(**validated_data): a keyword that is no field of
\* User raises and nothing is stored; the username column is unique
create_user(db, data) ==
    IF ~(DOMAIN data \subseteq UserFields) THEN db
    ELSE IF \E u \in DOMAIN db.users : db.users[u].username = data.username THEN db
    ELSE UserSave([db EXCEPT !.nextUserId = @ + 1], db.nextUserId,
                  [username |-> data.username,
                   email |-> normalize_email(data.email),
                   first_name |-> data.first_name,
                   last_name |-> data.last_name,
                   password |-> make_password(data.password),
                   is_active |-> TRUE],
                  TRUE, <<>>)

CreateKeepsConfirm(db, validated_data) == create_user(db, validated_data)

\* UserRegistrationSerializer.create
create(db, validated_data) ==
    create_user(db, PopRest(validated_data, "password_confirm"))

---------------------------------------------------------------------------
(* Login: UserLoginSerializer *)

\* whether the backend lets this user authenticate
user_can_authenticate(be, row) ==
    be = "AllowAllUsersModelBackend" \/ row.is_active

AuthenticateByNameOnly(us, be, username, password) ==
    LET named == {u \in DOMAIN us : us[u].username = username}
    IN  IF named = {} THEN NoUser
        ELSE LET u == CHOOSE v \in named : TRUE
             IN  IF user_can_authenticate(be, us[u]) THEN u ELSE NoUser

\* django.contrib.auth.authenticate: the user of that name when the password
\* checks and the backend lets the user authenticate, else nobody
authenticate(us, be, username, password) ==
    LET named == {u \in DOMAIN us : us[u].username = username}
    IN  IF named = {} THEN NoUser
        ELSE LET u == CHOOSE v \in named : TRUE
             IN  IF check_password(password, us[u].password)
                    /\ user_can_authenticate(be, us[u])
                   THEN u ELSE NoUser

LoginFieldErrors(data) ==
    IF data.username = "" \/ data.password = "" THEN {MayNotBeBlank} ELSE {}

\* UserLoginSerializer.validate
LoginValidate(us, be, attrs) ==
    IF attrs.username # "" /\ attrs.password # ""
      THEN LET user == authenticate(us, be, attrs.username, attrs.password)
           IN  IF user = NoUser
                 THEN [errors |-> {InvalidCredentials}, user |-> NoUser]
                 ELSE IF ~us[user].is_active
                   THEN [errors |-> {AccountDisabled}, user |-> NoUser]
                   ELSE [errors |-> {}, user |-> user]
      ELSE [errors |-> {MustInclude}, user |-> NoUser]

\* is_valid(): blank fields are refused before validate() runs
LoginResult(us, be, data) ==
    IF LoginFieldErrors(data) # {}
      THEN [errors |-> LoginFieldErrors(data), user |-> NoUser]
      ELSE LoginValidate(us, be, data)

---------------------------------------------------------------------------
(* Profile update: UserProfileUpdateSerializer *)

\* first_name and last_name are declared with source 'user.<field>': the
\* validated data holds them in a nested dictionary under 'user'
UpdateValidatedData(data) ==
    LET uk == DOMAIN data \cap IdentityKeys
        pk == DOMAIN data \ IdentityKeys
    IN  IF uk = {} THEN Restrict(data, pk)
        ELSE [k \in pk \cup {"user"} |->
                IF k = "user" THEN Restrict(data, uk) ELSE data[k]]

\* the objects a request holds: the profile instance and its user
Load(db, pid) ==
    [pid |-> pid, instance |-> db.profiles[pid],
     uid |-> db.profiles[pid].user, user |-> db.users[db.profiles[pid].user]]

UserPartSkipped(c, validated_data) == c

\* update, first half: the user fields.  instance.user.save() sends post_save,
\* whose receiver saves instance.user.userprofile, which is this instance
UpdateUserPart(c, validated_data) ==
    LET user_data == PopValue(validated_data, "user")
    IN  IF DOMAIN user_data # {}
          THEN LET row == SetAttrs(c.mem.user, user_data)
               IN  [db |-> UserSave(c.db, c.mem.uid, row, FALSE,
                                    c.mem.pid :> c.mem.instance),
                    mem |-> [c.mem EXCEPT !.user = row,
                                          !.instance.updated_at = c.db.now]]
          ELSE c

\* update, second half: the remaining fields go on the instance, which is
\* saved
UpdateProfilePart(c, validated_data) ==
    LET rest == PopRest(validated_data, "user")
        row == SetAttrs(c.mem.instance, rest)
    IN  [db |-> ProfileSave(c.db, c.mem.pid, row),
         mem |-> [c.mem EXCEPT !.instance = row]]

\* UserProfileUpdateSerializer.update
update(c, validated_data) ==
    UpdateProfilePart(UpdateUserPart(c, validated_data), validated_data)

---------------------------------------------------------------------------
(* The state after construction: empty tables *)

Idle == [pc |-> "idle", kind |-> "none", data |-> <<>>, mem |-> <<>>,
         outcome |-> {}]

Init ==
    /\ users = <<>>
    /\ profiles = <<>>
    /\ nextUserId = 1
    /\ nextProfileId = 1
    /\ now = 1
    /\ backend \in Backends
    /\ last = [op |-> "init", data |-> <<>>, errors |-> {}, user |-> NoUser,
               profile |-> 0, writes |-> <<>>]
    /\ req = [r \in 1..MaxReq |-> Idle]

\* the tables after a request: the clock has moved on when rows were written
Commit(db) ==
    /\ users' = db.users
    /\ profiles' = db.profiles
    /\ nextUserId' = db.nextUserId
    /\ nextProfileId' = db.nextProfileId
    /\ now' = IF db.writes # <<>> THEN now + 1 ELSE now

Bounded == now < MaxTime

---------------------------------------------------------------------------
(* Spec: one step per request *)

\* POST auth/register/
Register(data) ==
    /\ Bounded
    /\ nextUserId <= MaxIds
    /\ LET errors == RegistrationErrors(users, data)
           db == IF errors = {} THEN create(DB(<<>>), data) ELSE DB(<<>>)
       IN  /\ Commit(db)
           /\ last' = [op |-> "register", data |-> data, errors |-> errors,
                       user |-> IF db.nextUserId # nextUserId
                                  THEN nextUserId ELSE NoUser,
                       profile |-> 0, writes |-> db.writes]
    /\ UNCHANGED <<backend, req>>

\* POST auth/login/
Login(data) ==
    /\ Bounded
    /\ LET res == LoginResult(users, backend, data)
       IN  last' = [op |-> "login", data |-> data, errors |-> res.errors,
                    user |-> res.user, profile |-> 0, writes |-> <<>>]
    /\ UNCHANGED <<users, profiles, nextUserId, nextProfileId, now, backend, req>>

\* PUT profile/ by the authenticated owner of profile pid
UpdateProfile(pid, data) ==
    /\ Bounded
    /\ pid \in DOMAIN profiles
    /\ profiles[pid].user \in DOMAIN users
    /\ LET c == update([db |-> DB(<<>>), mem |-> Load(DB(<<>>), pid)],
                       UpdateValidatedData(data))
       IN  /\ Commit(c.db)
           /\ last' = [op |-> "update", data |-> data, errors |-> {},
                       user |-> profiles[pid].user, profile |-> pid,
                       writes |-> c.db.writes]
    /\ UNCHANGED <<backend, req>>

\* an Identity saved again: its active flag set by an administrator
SaveIdentity(uid, active) ==
    /\ Bounded
    /\ uid \in DOMAIN users
    /\ LET db == UserSave(DB(<<>>), uid,
                          [users[uid] EXCEPT !.is_active = active], FALSE, <<>>)
       IN  /\ Commit(db)
           /\ last' = [op |-> "save", data |-> <<>>, errors |-> {},
                       user |-> uid, profile |-> 0, writes |-> db.writes]
    /\ UNCHANGED <<backend, req>>

\* an Identity deleted
DeleteIdentity(uid) ==
    /\ Bounded
    /\ uid \in DOMAIN users
    /\ LET db == UserDelete(DB(<<"delete">>), uid)
       IN  /\ Commit(db)
           /\ last' = [op |-> "delete", data |-> <<>>, errors |-> {},
                       user |-> uid, profile |-> 0, writes |-> <<>>]
    /\ UNCHANGED <<backend, req>>

Next ==
    \/ \E data \in RegistrationPayloads : Register(data)
    \/ \E data \in LoginPayloads : Login(data)
    \/ \E pid \in 1..MaxIds, data \in UpdatePayloads : UpdateProfile(pid, data)
    \/ \E uid \in 1..MaxIds, active \in BOOLEAN : SaveIdentity(uid, active)
    \/ \E uid \in 1..MaxIds : DeleteIdentity(uid)

Spec == Init /\ [][Next]_vars

---------------------------------------------------------------------------
(* SpecConc: requests run concurrently, one database step at a time *)

ConcRegistrationPayloads ==
    [username : {"u1", "u2"}, email : {<<"a", "x.io">>, <<"b", "x.io">>},
     first_name : {"Jane"}, last_name : {"Doe"}, password : {"password1"},
     password_confirm : {"password1"}]

ConcUpdatePayloads ==
    {[k \in K |-> PayloadValue(k)] :
        K \in SUBSET {"first_name", "bio", "company"} \ {{}}}

\* register: serializer.is_valid(), which reads the tables
RegValidate(r, data) ==
    /\ req[r].pc = "idle"
    /\ LET errors == RegistrationErrors(users, data)
       IN  req' = [req EXCEPT ![r] =
                     [pc |-> IF errors = {} THEN "reg_create" ELSE "done",
                      kind |-> "register", data |-> data, mem |-> <<>>,
                      outcome |-> errors]]
    /\ UNCHANGED <<users, profiles, nextUserId, nextProfileId, now, backend, last>>

\* register: serializer.save(), which inserts the rows
RegCreate(r) ==
    /\ req[r].pc = "reg_create"
    /\ LET db == create(DB(<<>>), req[r].data)
       IN  /\ Commit(db)
           /\ req' = [req EXCEPT ![r].pc = "done",
                                 ![r].outcome = IF db.writes = <<>>
                                                  THEN {"IntegrityError"} ELSE {}]
    /\ UNCHANGED <<backend, last>>

\* profile update: the view loads the profile and its user
UpdLoad(r, pid, data) ==
    /\ req[r].pc = "idle"
    /\ pid \in DOMAIN profiles
    /\ profiles[pid].user \in DOMAIN users
    /\ req' = [req EXCEPT ![r] =
                 [pc |-> "upd_user", kind |-> "update", data |-> data,
                  mem |-> Load(DB(<<>>), pid), outcome |-> {}]]
    /\ UNCHANGED <<users, profiles, nextUserId, nextProfileId, now, backend, last>>

\* profile update: the user fields are set and the user saved
UpdUser(r) ==
    /\ req[r].pc = "upd_user"
    /\ LET c == UpdateUserPart([db |-> DB(<<>>), mem |-> req[r].mem],
                               UpdateValidatedData(req[r].data))
       IN  /\ Commit(c.db)
           /\ req' = [req EXCEPT ![r].pc = "upd_profile", ![r].mem = c.mem]
    /\ UNCHANGED <<backend, last>>

\* profile update: the profile fields are set and the profile saved
UpdProfile(r) ==
    /\ req[r].pc = "upd_profile"
    /\ LET c == UpdateProfilePart([db |-> DB(<<>>), mem |-> req[r].mem],
                                  UpdateValidatedData(req[r].data))
       IN  /\ Commit(c.db)
           /\ req' = [req EXCEPT ![r].pc = "done", ![r].mem = c.mem]
    /\ UNCHANGED <<backend, last>>

NextConc ==
    \/ \E r \in 1..MaxReq, data \in ConcRegistrationPayloads : RegValidate(r, data)
    \/ \E r \in 1..MaxReq : RegCreate(r)
    \/ \E r \in 1..MaxReq, pid \in 1..MaxReq, data \in ConcUpdatePayloads :
          UpdLoad(r, pid, data)
    \/ \E r \in 1..MaxReq : UpdUser(r)
    \/ \E r \in 1..MaxReq : UpdProfile(r)

SpecConc == Init /\ [][NextConc]_vars

---------------------------------------------------------------------------
(* Properties *)

Optional ==
    {"phone_number", "date_of_birth", "location", "bio", "skills",
     "linkedin_url", "github_url", "resume", "profile_picture", "company"}

Range(seq) == {seq[i] : i \in DOMAIN seq}

\* C1: every existing Identity has exactly one Profile and every Profile
\* belongs to an existing Identity, after any sequence of creations, re-saves,
\* profile updates and deletions.
C1_OneProfilePerIdentity ==
    /\ \A u \in DOMAIN users : Cardinality(ProfilesOf(profiles, u)) = 1
    /\ \A p \in DOMAIN profiles : profiles[p].user \in DOMAIN users

\* an Identity saved again after another one was created: it still has the
\* one profile, written again by the re-save
C1_Witness ==
    /\ last.op = "save"
    /\ Cardinality(DOMAIN users) = 2
    /\ \E p \in ProfilesOf(profiles, last.user) :
          profiles[p].updated_at > profiles[p].created_at

\* the step registered exactly one Identity, from payload d, with a profile of
\* defaults
Registered(d) ==
    /\ last'.errors = {}
    /\ last'.user \notin DOMAIN users
    /\ DOMAIN users' = DOMAIN users \cup {last'.user}
    /\ \A u \in DOMAIN users : users'[u] = users[u]
    /\ DOMAIN users'[last'.user] = UserFields
    /\ users'[last'.user].username = d.username
    /\ users'[last'.user].email = normalize_email(d.email)
    /\ users'[last'.user].first_name = d.first_name
    /\ users'[last'.user].last_name = d.last_name
    /\ users'[last'.user].is_active
    /\ check_password(d.password, users'[last'.user].password)
    /\ \E p \in DOMAIN profiles' \ DOMAIN profiles :
          /\ DOMAIN profiles' = DOMAIN profiles \cup {p}
          /\ profiles'[p].user = last'.user
          /\ \A f \in Optional : profiles'[p][f] = None
          /\ profiles'[p].experience_years = 0
          /\ profiles'[p].is_recruiter = FALSE
    /\ \A p \in DOMAIN profiles : profiles'[p] = profiles[p]

PasswordAndEmailFine(d) ==
    /\ Len(d.password) >= MinPasswordLength
    /\ d.password = d.password_confirm
    /\ \A u \in DOMAIN users : users[u].email # d.email

\* C2 as stated: a payload with a password of 8 or more characters, equal to
\* password_confirm, and an unused email always registers.
C2_AsStated ==
    [][(last'.op = "register" /\ PasswordAndEmailFine(last'.data))
          => Registered(last'.data)]_vars

\* C2: such a payload registers exactly one Identity, with a profile of
\* defaults, when its username is also held by no Identity.
C2_RegistrationSucceeds ==
    [][(/\ last'.op = "register"
        /\ PasswordAndEmailFine(last'.data)
        /\ \A u \in DOMAIN users : users[u].username # last'.data.username)
          => Registered(last'.data)]_vars

\* a second Identity registered next to an existing one
C2_Witness ==
    /\ last.op = "register"
    /\ last.errors = {}
    /\ Cardinality(DOMAIN users) = 2
    /\ last.user \in DOMAIN users
    /\ \E p \in ProfilesOf(profiles, last.user) :
          profiles[p].experience_years = 0 /\ profiles[p].bio = None

TablesUnchanged == users' = users /\ profiles' = profiles

\* C3 as stated: password # password_confirm always fails with "Passwords
\* don't match" and changes no table, whatever the other fields are.
C3_AsStated ==
    [][(last'.op = "register"
        /\ last'.data.password # last'.data.password_confirm)
          => (PasswordsDontMatch \in last'.errors /\ TablesUnchanged)]_vars

\* C3: password # password_confirm always fails and changes no table; the
\* error is "Passwords don't match" when no field of the payload has an error
\* of its own.
C3_MismatchFails ==
    [][(last'.op = "register"
        /\ last'.data.password # last'.data.password_confirm)
          => /\ last'.errors # {}
             /\ last'.user = NoUser
             /\ TablesUnchanged
             /\ RegistrationFieldErrors(users, last'.data) = {}
                   => last'.errors = {PasswordsDontMatch}]_vars

\* a mismatch rejected with the message, an Identity already existing
C3_Witness ==
    /\ last.op = "register"
    /\ last.data.password # last.data.password_confirm
    /\ last.errors = {PasswordsDontMatch}
    /\ DOMAIN users # {}

CredentialsMatch(d) ==
    \E u \in DOMAIN users :
        users[u].username = d.username /\ check_password(d.password, users[u].password)

\* C5: login with the correct username and password of an inactive Identity
\* fails with "User account is disabled" and yields nobody; that error is
\* given only when the credentials match.
C5_DisabledAccount ==
    /\ (last.op = "login"
        /\ \E u \in DOMAIN users :
              /\ users[u].username = last.data.username
              /\ check_password(last.data.password, users[u].password)
              /\ ~users[u].is_active)
          => (AccountDisabled \in last.errors /\ last.user = NoUser)
    /\ (last.op = "login" /\ AccountDisabled \in last.errors)
          => CredentialsMatch(last.data)

\* C6 as stated: login with an unknown username or a password that does not
\* match always fails with "Invalid credentials" and yields nobody.
C6_AsStated ==
    (last.op = "login" /\ ~CredentialsMatch(last.data))
        => (InvalidCredentials \in last.errors /\ last.user = NoUser)

\* C6: so it does when the username and the password given are not blank.
C6_InvalidCredentials ==
    (/\ last.op = "login"
     /\ last.data.username # ""
     /\ last.data.password # ""
     /\ ~CredentialsMatch(last.data))
        => (last.errors = {InvalidCredentials} /\ last.user = NoUser)

\* the wrong password for an existing, active Identity
C6_Witness ==
    /\ last.op = "login"
    /\ last.data.password = "short"
    /\ \E u \in DOMAIN users :
          users[u].username = last.data.username /\ users[u].is_active
    /\ last.errors = {InvalidCredentials}

\* the update step leaves alone every field outside Exempt whose key the
\* payload lacks, and every other row
Frame(Exempt) ==
    LET d == last'.data
        pid == last'.profile
        uid == last'.user
    IN  /\ DOMAIN users' = DOMAIN users
        /\ DOMAIN profiles' = DOMAIN profiles
        /\ \A f \in DOMAIN profiles[pid] \ (DOMAIN d \cup Exempt) :
              profiles'[pid][f] = profiles[pid][f]
        /\ \A f \in DOMAIN users[uid] \ DOMAIN d :
              users'[uid][f] = users[uid][f]
        /\ \A u \in DOMAIN users \ {uid} : users'[u] = users[u]
        /\ \A p \in DOMAIN profiles \ {pid} : profiles'[p] = profiles[p]

\* C7 as stated: a profile update leaves unchanged every attribute of the
\* Profile and of its Identity whose key is absent from the update, and every
\* other Identity and Profile.
C7_AsStated == [][last'.op = "update" => Frame({})]_vars

\* C7: it does, but for the Profile's updated_at, which every update stamps.
C7_AbsentKeysUntouched == [][last'.op = "update" => Frame({"updated_at"})]_vars

\* update {bio} on a profile with company = "A"
C7_Witness ==
    /\ last.op = "update"
    /\ DOMAIN last.data = {"bio"}
    /\ profiles[last.profile].company = "A"
    /\ profiles[last.profile].bio = "hi"
    /\ Cardinality(DOMAIN users) = 1

\* C8: a profile update persists first_name and last_name on the Identity
\* and every other supplied value on the Profile; the Identity is written
\* only when an Identity field is supplied, and before any Profile write.
C8_Routing ==
    last.op = "update" =>
        LET d == last.data
            w == last.writes
        IN  /\ \A k \in DOMAIN d \cap IdentityKeys :
                  /\ users[last.user][k] = d[k]
                  /\ k \notin DOMAIN profiles[last.profile]
            /\ \A k \in DOMAIN d \ IdentityKeys :
                  /\ profiles[last.profile][k] = d[k]
                  /\ k \notin DOMAIN users[last.user]
            /\ <<"User", last.user>> \in Range(w)
                  <=> DOMAIN d \cap IdentityKeys # {}
            /\ <<"UserProfile", last.profile>> \in Range(w)
            /\ \A i, j \in DOMAIN w :
                  (w[i][1] = "User" /\ w[j][1] = "UserProfile") => i < j

\* an update of both records
C8_Witness ==
    /\ last.op = "update"
    /\ DOMAIN last.data = {"first_name", "company"}
    /\ users[last.user].first_name = "Joe"
    /\ profiles[last.profile].company = "A"
    /\ Len(last.writes) = 3

\* C9: after any interleaving of concurrent registrations no two Identities
\* hold the same email.
C9_UniqueEmail ==
    \A u, v \in DOMAIN users : u # v => users[u].email # users[v].email

Stored(pid, k) ==
    IF k \in IdentityKeys THEN users[profiles[pid].user][k] ELSE profiles[pid][k]

\* C10: when two updates of one Profile with disjoint key sets have both
\* completed, every key either supplied holds the value supplied.
C10_DisjointUpdatesKept ==
    \A r1, r2 \in 1..MaxReq :
        (/\ r1 # r2
         /\ req[r1].kind = "update" /\ req[r1].pc = "done"
         /\ req[r2].kind = "update" /\ req[r2].pc = "done"
         /\ req[r1].mem.pid = req[r2].mem.pid
         /\ DOMAIN req[r1].data \cap DOMAIN req[r2].data = {})
          => \A k \in DOMAIN req[r1].data :
                Stored(req[r1].mem.pid, k) = req[r1].data[k]

====
